---- MODULE Spec2Model ----
(***************************************************************************)
(* A model of heat/engine/watchrule.py: one WatchRule instance, the rows   *)
(* of the watch_rule and watch_data tables it reads and writes, the clock  *)
(* that timeutils.utcnow() samples and the owning stack that rule_actions  *)
(* loads.  Every public method is one action that runs the whole method.   *)
(* Times are whole seconds; metric values and thresholds are integers.     *)
(*                                                                         *)
(* And of heat/engine/hot.py: the section lookup of a HOT template and the *)
(* resolution of get_param and get_attr references in a snippet, as        *)
(* functions of their arguments.                                           *)
(***************************************************************************)
EXTENDS Integers, Sequences, FiniteSets, TLC

VARIABLES
    rule,            \* self.rule: the alarm specification (a mapping)
    state,           \* self.state
    last_evaluated,  \* self.last_evaluated
    now,             \* self.now
    id,              \* self.id (0 for None, until the rule is stored)
    watch_data,      \* self.watch_data: the samples the instance was built with
    clock,           \* what timeutils.utcnow() returns
    db_rule,         \* the watch_rule table: no row until the rule is created
    db_data,         \* the watch_data rows, in insertion order
    out,             \* the last call: its name, arguments, result and effects,
                     \* and what last_done and the state were when it was made
    last_run,        \* the time this instance last entered run_rule, if it did
    last_done,       \* the time this instance last completed run_rule, if any
    hot,             \* the last call on a HOT template: arguments and result
    inflight         \* two callers of evaluate() on this instance, a statement
                     \* at a time: where each is, and its local variables

vars == <<rule, state, last_evaluated, now, id, watch_data, clock,
          db_rule, db_data, out, last_run, last_done, hot, inflight>>

----------------------------------------------------------------------------
(* Bounds of the model *)

\* the clock runs from 0 to MaxTime
MaxTime == 3

\* the watch_data table holds at most MaxRows rows
MaxRows == 2

----------------------------------------------------------------------------
(* Values *)

None == "None"

ALARM == "ALARM"
NORMAL == "NORMAL"
NODATA == "NODATA"
SUSPENDED == "SUSPENDED"

WATCH_STATES == {ALARM, NORMAL, NODATA, SUSPENDED}

ACTION_MAP ==
    [ALARM |-> "AlarmActions",
     NORMAL |-> "OKActions",
     NODATA |-> "InsufficientDataActions"]

\* a state name that is not one of WATCH_STATES
BogusState == "BOGUS"

\* the five do_<Statistic> methods of the class
Statistics == {"Maximum", "Minimum", "SampleCount", "Average", "Sum"}

\* a Statistic for which the class has no do_ method
BogusStatistic == "Median"

Operators ==
    {"GreaterThanThreshold", "GreaterThanOrEqualToThreshold",
     "LessThanThreshold", "LessThanOrEqualToThreshold"}

\* a ComparisonOperator that do_data_cmp does not know
BogusOperator == "EqualToThreshold"

\* results of a call: a returned list, a returned None or a raised exception
Ok(v) == [kind |-> "ok", value |-> v, exc |-> ""]
RetNone == [kind |-> "none", value |-> <<>>, exc |-> ""]
Raise(e) == [kind |-> "raise", value |-> <<>>, exc |-> e]

\* the bound method stack[a].signal
Signal(a) == <<"signal", a>>

\* the owning stack as db_api.stack_get finds it; NoStack once it is deleted
DELETE == "DELETE"
COMPLETE == "COMPLETE"
NoStack == [action |-> None, status |-> None]
\* recorded for a call that did not read the stack
Unread == [action |-> "-", status |-> "-"]
StackValues ==
    {NoStack} \cup [action : {"CREATE", DELETE}, status : {"IN_PROGRESS", COMPLETE}]

----------------------------------------------------------------------------
(* Floating point values, kept exact as fractions with a positive denominator *)

float(n) == [num |-> n, den |-> 1]
FAdd(a, b) == [num |-> a.num * b.den + b.num * a.den, den |-> a.den * b.den]
FDiv(a, n) == [num |-> a.num, den |-> a.den * n]
FLt(a, b) == a.num * b.den < b.num * a.den
FLe(a, b) == a.num * b.den <= b.num * a.den

----------------------------------------------------------------------------
(* The statistics: self.rule is r, self.watch_data is wd, self.now is nw *)

timeperiod(r) == r.Period

do_data_cmp(r, data, threshold) ==
    LET op == r.ComparisonOperator IN
    IF op = "GreaterThanThreshold" THEN FLt(threshold, data)
    ELSE IF op = "GreaterThanOrEqualToThreshold" THEN FLe(threshold, data)
    ELSE IF op = "LessThanThreshold" THEN FLt(data, threshold)
    ELSE IF op = "LessThanOrEqualToThreshold" THEN FLe(data, threshold)
    ELSE FALSE

\* the test as it would be if it skipped the sample at the start of the window
TooOld_AtStart(r, d, nw) == d.created_at <= nw - timeperiod(r)

\* the test at the head of every loop body: TRUE when the sample is skipped
TooOld(r, d, nw) == d.created_at < nw - timeperiod(r)

MetricValue(r, d) == float(d.data[r.MetricName].Value)

CmpState(r, data) ==
    IF do_data_cmp(r, data, float(r.Threshold)) THEN ALARM ELSE NORMAL

RECURSIVE MaximumLoop(_, _, _, _, _)
MaximumLoop(r, wd, nw, i, acc) ==
    IF i > Len(wd) THEN acc
    ELSE IF TooOld(r, wd[i], nw) THEN MaximumLoop(r, wd, nw, i + 1, acc)
    ELSE LET v == MetricValue(r, wd[i])
             a1 == IF ~acc.have_data
                   THEN [data |-> v, have_data |-> TRUE] ELSE acc
             a2 == IF FLt(a1.data, v) THEN [a1 EXCEPT !.data = v] ELSE a1
         IN MaximumLoop(r, wd, nw, i + 1, a2)

do_Maximum(r, wd, nw) ==
    LET acc == MaximumLoop(r, wd, nw, 1, [data |-> float(0), have_data |-> FALSE])
    IN IF ~acc.have_data THEN NODATA ELSE CmpState(r, acc.data)

RECURSIVE MinimumLoop(_, _, _, _, _)
MinimumLoop(r, wd, nw, i, acc) ==
    IF i > Len(wd) THEN acc
    ELSE IF TooOld(r, wd[i], nw) THEN MinimumLoop(r, wd, nw, i + 1, acc)
    ELSE LET v == MetricValue(r, wd[i])
             a1 == IF ~acc.have_data
                   THEN [data |-> v, have_data |-> TRUE]
                   ELSE IF FLt(v, acc.data) THEN [acc EXCEPT !.data = v]
                   ELSE acc
         IN MinimumLoop(r, wd, nw, i + 1, a1)

do_Minimum(r, wd, nw) ==
    LET acc == MinimumLoop(r, wd, nw, 1, [data |-> float(0), have_data |-> FALSE])
    IN IF ~acc.have_data THEN NODATA ELSE CmpState(r, acc.data)

RECURSIVE SampleCountLoop(_, _, _, _, _)
SampleCountLoop(r, wd, nw, i, data) ==
    IF i > Len(wd) THEN data
    ELSE IF TooOld(r, wd[i], nw) THEN SampleCountLoop(r, wd, nw, i + 1, data)
    ELSE SampleCountLoop(r, wd, nw, i + 1, data + 1)

do_SampleCount(r, wd, nw) ==
    CmpState(r, float(SampleCountLoop(r, wd, nw, 1, 0)))

RECURSIVE AverageLoop(_, _, _, _, _)
AverageLoop(r, wd, nw, i, acc) ==
    IF i > Len(wd) THEN acc
    ELSE IF TooOld(r, wd[i], nw) THEN AverageLoop(r, wd, nw, i + 1, acc)
    ELSE AverageLoop(r, wd, nw, i + 1,
                     [samples |-> acc.samples + 1,
                      data |-> FAdd(acc.data, MetricValue(r, wd[i]))])

do_Average(r, wd, nw) ==
    LET acc == AverageLoop(r, wd, nw, 1, [samples |-> 0, data |-> float(0)])
    IN IF acc.samples = 0 THEN NODATA
       ELSE CmpState(r, FDiv(acc.data, acc.samples))

RECURSIVE SumLoop(_, _, _, _, _)
SumLoop(r, wd, nw, i, data) ==
    IF i > Len(wd) THEN data
    ELSE IF TooOld(r, wd[i], nw) THEN SumLoop(r, wd, nw, i + 1, data)
    ELSE SumLoop(r, wd, nw, i + 1, FAdd(data, MetricValue(r, wd[i])))

\* do_Sum as it would be with the have-data test of do_Maximum
do_Sum_NoData(r, wd, nw) ==
    IF \A i \in DOMAIN wd : TooOld(r, wd[i], nw) THEN NODATA
    ELSE CmpState(r, SumLoop(r, wd, nw, 1, float(0)))

do_Sum(r, wd, nw) ==
    CmpState(r, SumLoop(r, wd, nw, 1, float(0)))

\* getattr(self, 'do_%s' % Statistic) raises AttributeError when the class
\* has no such method; otherwise the method runs and its state is returned
get_alarm_state(r, wd, nw) ==
    LET st == r.Statistic IN
    IF st = "Maximum" THEN [exc |-> "", ran |-> TRUE, state |-> do_Maximum(r, wd, nw)]
    ELSE IF st = "Minimum" THEN [exc |-> "", ran |-> TRUE, state |-> do_Minimum(r, wd, nw)]
    ELSE IF st = "SampleCount" THEN [exc |-> "", ran |-> TRUE, state |-> do_SampleCount(r, wd, nw)]
    ELSE IF st = "Average" THEN [exc |-> "", ran |-> TRUE, state |-> do_Average(r, wd, nw)]
    ELSE IF st = "Sum" THEN [exc |-> "", ran |-> TRUE, state |-> do_Sum(r, wd, nw)]
    ELSE [exc |-> "AttributeError", ran |-> FALSE, state |-> None]

----------------------------------------------------------------------------
(* Action dispatch *)

\* [stack[a].signal for a in refs], in the order of refs
RECURSIVE Signals(_)
Signals(refs) ==
    IF refs = <<>> THEN <<>> ELSE <<Signal(Head(refs))>> \o Signals(Tail(refs))

\* parser.Stack.load(context, stack=s): a stack that is gone is not found
Stack_load(stk) == IF stk = NoStack THEN "NotFound" ELSE ""

\* rule_actions as it would be without the test of the stack's action and status
rule_actions_AnyStack(r, stk, new_state) ==
    IF new_state \notin DOMAIN ACTION_MAP
    THEN [exc |-> "KeyError", actions |-> <<>>, loaded |-> FALSE]
    ELSE IF ACTION_MAP[new_state] \notin DOMAIN r
    THEN [exc |-> "", actions |-> <<>>, loaded |-> FALSE]
    ELSE IF Stack_load(stk) # ""
    THEN [exc |-> Stack_load(stk), actions |-> <<>>, loaded |-> TRUE]
    ELSE [exc |-> "", actions |-> Signals(r[ACTION_MAP[new_state]]),
          loaded |-> TRUE]

\* rule_actions(new_state) when db_api.stack_get finds stk.  ACTION_MAP has no
\* entry for SUSPENDED (nor for any other name): the subscript raises KeyError.
\* Nothing in the method catches what the stack load raises.
rule_actions(r, stk, new_state) ==
    IF new_state \notin DOMAIN ACTION_MAP
    THEN [exc |-> "KeyError", actions |-> <<>>, loaded |-> FALSE]
    ELSE IF ACTION_MAP[new_state] \notin DOMAIN r
    THEN [exc |-> "", actions |-> <<>>, loaded |-> FALSE]
    ELSE IF Stack_load(stk) # ""
    THEN [exc |-> Stack_load(stk), actions |-> <<>>, loaded |-> TRUE]
    ELSE IF stk.action # DELETE /\ stk.status = COMPLETE
    THEN [exc |-> "", actions |-> Signals(r[ACTION_MAP[new_state]]),
          loaded |-> TRUE]
    ELSE [exc |-> "", actions |-> <<>>, loaded |-> TRUE]

----------------------------------------------------------------------------
(* The rules and the samples of the model *)

\* payloads posted to create_watch_data: metric name -> {Value: ...}
Payloads ==
    {[CPU |-> [Value |-> 1]],
     [CPU |-> [Value |-> 3], Mem |-> [Value |-> 7]],
     [Mem |-> [Value |-> 7]]}

NoPayload == [m \in {} |-> [Value |-> 0]]

Thresholds == {-1, 2}
Periods == {1, 2}

BaseRules ==
    [MetricName : {"CPU"},
     Statistic : Statistics \cup {BogusStatistic},
     ComparisonOperator : Operators \cup {BogusOperator},
     Threshold : Thresholds,
     Period : Periods]

\* the optional action lists of a rule
AllActions ==
    [AlarmActions |-> <<"scale_up", "notify">>,
     OKActions |-> <<"scale_down">>,
     InsufficientDataActions |-> <<"notify", "scale_down">>]

AlarmOnly == [AlarmActions |-> <<"notify", "scale_up">>]

EmptyAlarmActions == [AlarmActions |-> <<>>]

\* the rules whose evaluation is explored: every Statistic, with actions for
\* ALARM and none for NORMAL and NODATA
EvalRules ==
    {b @@ AlarmOnly : b \in {x \in BaseRules :
                                x.ComparisonOperator = "GreaterThanThreshold"}}

\* the rules whose whole life is explored: one for every Statistic
LifeRules == {r \in EvalRules : r.Threshold = 2 /\ r.Period = 2}

\* the rules whose action dispatch is explored: every shape of action lists
CallRules ==
    LET base == {b \in BaseRules :
                    /\ b.ComparisonOperator = "GreaterThanThreshold"
                    /\ b.Statistic = "Average"
                    /\ b.Threshold = 2
                    /\ b.Period = 1}
    IN base \cup {b @@ a : b \in base,
                           a \in {AllActions, AlarmOnly, EmptyAlarmActions}}

\* the rows the watch_data table holds for the rule when the instance is
\* loaded: created at or before the load, in insertion order
OldRows ==
    {[data |-> [CPU |-> [Value |-> 3]], watch_rule_id |-> 1, created_at |-> -2],
     [data |-> [CPU |-> [Value |-> 1]], watch_rule_id |-> 1, created_at |-> -1]}

InitialRows ==
    {rows \in UNION {[1..n -> OldRows] : n \in 0..MaxRows} :
        \A i \in 1..(Len(rows) - 1) : rows[i].created_at <= rows[i + 1].created_at}

----------------------------------------------------------------------------
(* The methods.  self is the instance, a record of its attributes; rows is *)
(* the watch_rule table, drows the watch_data table, clk the clock and stk *)
(* the stack db_api.stack_get finds.  A method yields the instance and the *)
(* table after the call, what the call returned or raised (ret), and its   *)
(* effects in the order it performed them (log): "stat" a do_ method ran,  *)
(* "stack_load" the stack was loaded, "commit" state and last_evaluated    *)
(* were assigned, "store" store() was called, "watch_data_create" a sample *)
(* row was inserted.                                                       *)

\* the id the watch_rule table gives the one rule of this model
NewId == 1

\* store(): the row written holds name, rule, state and stack_id, and nothing
\* else of the instance.  A created row gets its last_evaluated from the
\* table (the time of the insert); an update leaves that column alone.
store(self, rows, clk) ==
    IF self.id = 0
    THEN [self |-> [self EXCEPT !.id = NewId],
          rows |-> <<[id |-> NewId, state |-> self.state,
                      last_evaluated |-> clk]>>]
    ELSE [self |-> self,
          rows |-> [i \in DOMAIN rows |->
                      IF rows[i].id = self.id
                      THEN [rows[i] EXCEPT !.state = self.state]
                      ELSE rows[i]]]

\* run_rule as it would be with state and last_evaluated assigned before
\* rule_actions is called
run_rule_CommitFirst(self, rows, clk, stk) ==
    LET gas == get_alarm_state(self.rule, self.watch_data, self.now) IN
    IF gas.exc # ""
    THEN [self |-> self, rows |-> rows, ret |-> Raise(gas.exc), log |-> <<>>,
          stk |-> Unread, ran |-> TRUE]
    ELSE LET s1 == [self EXCEPT !.state = gas.state,
                                !.last_evaluated = self.now]
             ra == rule_actions(self.rule, stk, gas.state)
             l1 == <<"stat", "commit">>
                   \o (IF ra.loaded THEN <<"stack_load">> ELSE <<>>)
             seen == IF ra.loaded THEN stk ELSE Unread
         IN IF ra.exc # ""
            THEN [self |-> s1, rows |-> rows, ret |-> Raise(ra.exc),
                  log |-> l1, stk |-> seen, ran |-> TRUE]
            ELSE LET st == store(s1, rows, clk)
                 IN [self |-> st.self, rows |-> st.rows, ret |-> Ok(ra.actions),
                     log |-> l1 \o <<"store">>, stk |-> seen, ran |-> TRUE]

\* run_rule as it would be if it asked for the actions only when the state
\* changes
run_rule_OnTransition(self, rows, clk, stk) ==
    LET gas == get_alarm_state(self.rule, self.watch_data, self.now) IN
    IF gas.exc # ""
    THEN [self |-> self, rows |-> rows, ret |-> Raise(gas.exc), log |-> <<>>,
          stk |-> Unread, ran |-> TRUE]
    ELSE LET ra == IF gas.state # self.state
                   THEN rule_actions(self.rule, stk, gas.state)
                   ELSE [exc |-> "", actions |-> <<>>, loaded |-> FALSE]
             l1 == <<"stat">> \o (IF ra.loaded THEN <<"stack_load">> ELSE <<>>)
             seen == IF ra.loaded THEN stk ELSE Unread
         IN IF ra.exc # ""
            THEN [self |-> self, rows |-> rows, ret |-> Raise(ra.exc),
                  log |-> l1, stk |-> seen, ran |-> TRUE]
            ELSE LET s1 == [self EXCEPT !.state = gas.state,
                                        !.last_evaluated = self.now]
                     st == store(s1, rows, clk)
                 IN [self |-> st.self, rows |-> st.rows, ret |-> Ok(ra.actions),
                     log |-> l1 \o <<"commit", "store">>, stk |-> seen,
                     ran |-> TRUE]

\* run_rule(), up to the first call that raises
run_rule(self, rows, clk, stk) ==
    LET gas == get_alarm_state(self.rule, self.watch_data, self.now) IN
    IF gas.exc # ""
    THEN [self |-> self, rows |-> rows, ret |-> Raise(gas.exc), log |-> <<>>,
          stk |-> Unread, ran |-> TRUE]
    ELSE LET ra == rule_actions(self.rule, stk, gas.state)
             l1 == <<"stat">> \o (IF ra.loaded THEN <<"stack_load">> ELSE <<>>)
             seen == IF ra.loaded THEN stk ELSE Unread
         IN IF ra.exc # ""
            THEN [self |-> self, rows |-> rows, ret |-> Raise(ra.exc),
                  log |-> l1, stk |-> seen, ran |-> TRUE]
            ELSE LET s1 == [self EXCEPT !.state = gas.state,
                                        !.last_evaluated = self.now]
                     st == store(s1, rows, clk)
                 IN [self |-> st.self, rows |-> st.rows, ret |-> Ok(ra.actions),
                     log |-> l1 \o <<"commit", "store">>, stk |-> seen,
                     ran |-> TRUE]

\* evaluate as it would be without the test for SUSPENDED
evaluate_NoSuspendedTest(self, rows, clk, stk) ==
    LET s1 == [self EXCEPT !.now = clk] IN
    IF s1.now < s1.last_evaluated + timeperiod(s1.rule)
    THEN [self |-> s1, rows |-> rows, ret |-> Ok(<<>>), log |-> <<>>,
          stk |-> Unread, ran |-> FALSE]
    ELSE run_rule(s1, rows, clk, stk)

\* evaluate as it would be with <= in the test of the elapsed time
evaluate_LateByOne(self, rows, clk, stk) ==
    IF self.state = SUSPENDED
    THEN [self |-> self, rows |-> rows, ret |-> Ok(<<>>), log |-> <<>>,
          stk |-> Unread, ran |-> FALSE]
    ELSE LET s1 == [self EXCEPT !.now = clk] IN
         IF s1.now <= s1.last_evaluated + timeperiod(s1.rule)
         THEN [self |-> s1, rows |-> rows, ret |-> Ok(<<>>), log |-> <<>>,
               stk |-> Unread, ran |-> FALSE]
         ELSE run_rule(s1, rows, clk, stk)

\* evaluate()
evaluate(self, rows, clk, stk) ==
    IF self.state = SUSPENDED
    THEN [self |-> self, rows |-> rows, ret |-> Ok(<<>>), log |-> <<>>,
          stk |-> Unread, ran |-> FALSE]
    ELSE LET s1 == [self EXCEPT !.now = clk] IN
         IF s1.now < s1.last_evaluated + timeperiod(s1.rule)
         THEN [self |-> s1, rows |-> rows, ret |-> Ok(<<>>), log |-> <<>>,
               stk |-> Unread, ran |-> FALSE]
         ELSE run_rule(s1, rows, clk, stk)

\* create_watch_data as it would be without the test for SUSPENDED
create_watch_data_NoSuspendedTest(self, drows, clk, data) ==
    IF self.rule.MetricName \notin DOMAIN data
    THEN [self |-> self, drows |-> drows, ret |-> RetNone, log |-> <<>>]
    ELSE [self |-> self,
          drows |-> Append(drows, [data |-> data, watch_rule_id |-> self.id,
                                   created_at |-> clk]),
          ret |-> RetNone, log |-> <<"watch_data_create">>]

\* create_watch_data(data); the table stamps the new row with the time
create_watch_data(self, drows, clk, data) ==
    IF self.state = SUSPENDED
    THEN [self |-> self, drows |-> drows, ret |-> Ok(<<>>), log |-> <<>>]
    ELSE IF self.rule.MetricName \notin DOMAIN data
    THEN [self |-> self, drows |-> drows, ret |-> RetNone, log |-> <<>>]
    ELSE [self |-> self,
          drows |-> Append(drows, [data |-> data, watch_rule_id |-> self.id,
                                   created_at |-> clk]),
          ret |-> RetNone, log |-> <<"watch_data_create">>]

\* state_set as it would be without the call of store()
state_set_NoStore(self, rows, clk, s) ==
    IF s \notin WATCH_STATES
    THEN [self |-> self, rows |-> rows, ret |-> Raise("ValueError"),
          log |-> <<>>]
    ELSE [self |-> [self EXCEPT !.state = s], rows |-> rows, ret |-> RetNone,
          log |-> <<>>]

\* state_set(state)
state_set(self, rows, clk, s) ==
    IF s \notin WATCH_STATES
    THEN [self |-> self, rows |-> rows, ret |-> Raise("ValueError"),
          log |-> <<>>]
    ELSE LET st == store([self EXCEPT !.state = s], rows, clk)
         IN [self |-> st.self, rows |-> st.rows, ret |-> RetNone,
             log |-> <<"store">>]

\* set_watch_state as it would be if it assigned self.state
set_watch_state_Assigns(self, stk, s) ==
    IF s \notin WATCH_STATES
    THEN [self |-> self, ret |-> Raise("ValueError"), log |-> <<>>,
          stk |-> Unread]
    ELSE IF s # self.state
    THEN LET ra == rule_actions(self.rule, stk, s)
         IN [self |-> [self EXCEPT !.state = s],
             ret |-> IF ra.exc # "" THEN Raise(ra.exc) ELSE Ok(ra.actions),
             log |-> IF ra.loaded THEN <<"stack_load">> ELSE <<>>,
             stk |-> IF ra.loaded THEN stk ELSE Unread]
    ELSE [self |-> self, ret |-> Ok(<<>>), log |-> <<>>, stk |-> Unread]

\* set_watch_state(state)
set_watch_state(self, stk, s) ==
    IF s \notin WATCH_STATES
    THEN [self |-> self, ret |-> Raise("ValueError"), log |-> <<>>,
          stk |-> Unread]
    ELSE IF s # self.state
    THEN LET ra == rule_actions(self.rule, stk, s)
         IN [self |-> self,
             ret |-> IF ra.exc # "" THEN Raise(ra.exc) ELSE Ok(ra.actions),
             log |-> IF ra.loaded THEN <<"stack_load">> ELSE <<>>,
             stk |-> IF ra.loaded THEN stk ELSE Unread]
    ELSE [self |-> self, ret |-> Ok(<<>>), log |-> <<>>, stk |-> Unread]

\* the samples of rule wid, as the row's watch_data relation lists them
RECURSIVE SamplesOf(_, _)
SamplesOf(drows, wid) ==
    IF drows = <<>> THEN <<>>
    ELSE (IF Head(drows).watch_rule_id = wid
          THEN <<[created_at |-> Head(drows).created_at,
                  data |-> Head(drows).data]>>
          ELSE <<>>) \o SamplesOf(Tail(drows), wid)

\* WatchRule.load(context, watch_name): a new instance built from the row;
\* __init__ samples the clock into self.now
load(self, rows, drows, clk) ==
    IF rows = <<>>
    THEN [self |-> self, ret |-> Raise("WatchRuleNotFound"), found |-> FALSE]
    ELSE LET watch == rows[1]
         IN [self |-> [rule |-> self.rule,
                       state |-> watch.state,
                       last_evaluated |-> watch.last_evaluated,
                       now |-> clk,
                       id |-> watch.id,
                       watch_data |-> SamplesOf(drows, watch.id)],
             ret |-> RetNone, found |-> TRUE]

----------------------------------------------------------------------------
(* hot.py.  A template snippet is a tree of Python values: each value is a  *)
(* record with one field that tells its type.                               *)

Str(x) == [str |-> x]
Num(n) == [num |-> n]
Bool(b) == [bool |-> b]
Dict(m) == [dict |-> m]
List(q) == [list |-> q]
Tuple(q) == [tuple |-> q]
PyNone == [none |-> None]
\* a raised exception, with its arguments
Exc(e, a) == [raise |-> e, args |-> a]

IsStr(v) == DOMAIN v = {"str"}
IsDict(v) == DOMAIN v = {"dict"}
IsList(v) == DOMAIN v = {"list"}
IsExc(v) == "raise" \in DOMAIN v

\* {} : the mapping with no key
EmptyDict == Dict(<<>>)

\* the state of a resource: (action, status)
CREATE == "CREATE"
UPDATE == "UPDATE"
IN_PROGRESS == "IN_PROGRESS"
ResourceActions == {"INIT", CREATE, DELETE, UPDATE, "SUSPEND"}
ResourceStatuses == {IN_PROGRESS, "FAILED", COMPLETE}

\* r.FnGetAtt(att): the value of the attribute of the resource
FnGetAtt(r, att) == [attribute |-> <<r.name, att>>]

\* what a call of the resolver yields: the value it returns or the exception
\* it raises, and the FnGetAtt calls it made
Yield(v, c) == [val |-> v, calls |-> c]

\* match_param_ref(key, value) of resolve_param_refs(s, parameters)
match_param_ref(parameters, key, value) ==
    /\ key = "get_param"
    /\ IsStr(value)
    /\ value.str \in DOMAIN parameters

\* handle_param_ref(ref) of resolve_param_refs(s, parameters)
handle_param_ref(parameters, ref) ==
    IF ref.str \in DOMAIN parameters
    THEN Yield(parameters[ref.str], {})
    ELSE Yield(Exc("UserParameterMissing", <<ref>>), {})

\* match_get_attr(key, value) of resolve_attributes(s, resources)
match_get_attr(resources, key, value) ==
    /\ key = "get_attr"
    /\ IsList(value)
    /\ Len(value.list) = 2
    /\ IsStr(value.list[1])
    /\ value.list[1].str \in DOMAIN resources

\* the states in which handle_get_attr reads the attribute
AttrStates ==
    {<<CREATE, IN_PROGRESS>>, <<CREATE, COMPLETE>>,
     <<UPDATE, IN_PROGRESS>>, <<UPDATE, COMPLETE>>}

\* handle_get_attr as it would be if it read the attribute of a resource
\* whose creation or update failed as well
handle_get_attr_Failed(resources, args) ==
    LET resource == args.list[1]
        att == args.list[2]
    IN IF resource.str \notin DOMAIN resources
       THEN Yield(Exc("InvalidTemplateAttribute", <<resource, att>>), {})
       ELSE LET r == resources[resource.str]
            IN IF r.state[1] \in {CREATE, UPDATE}
               THEN Yield(FnGetAtt(r, att), {<<r.name, att>>})
               ELSE Yield(PyNone, {})

\* handle_get_attr(args) of resolve_attributes(s, resources); a function that
\* ends without a return statement returns None
handle_get_attr(resources, args) ==
    LET resource == args.list[1]
        att == args.list[2]
    IN IF resource.str \notin DOMAIN resources
       THEN Yield(Exc("InvalidTemplateAttribute", <<resource, att>>), {})
       ELSE LET r == resources[resource.str]
            IN IF r.state \in AttrStates
               THEN Yield(FnGetAtt(r, att), {<<r.name, att>>})
               ELSE Yield(PyNone, {})

\* the two pairs of functions template._resolve is called with
match(which, env, key, value) ==
    IF which = "param" THEN match_param_ref(env, key, value)
    ELSE match_get_attr(env, key, value)

handle(which, env, value) ==
    IF which = "param" THEN handle_param_ref(env, value)
    ELSE handle_get_attr(env, value)

\* the values a set of calls raised, if any did
Raised(ys) == {y.val : y \in {z \in ys : IsExc(z.val)}}

\* template._resolve(match, handle, snippet): a mapping with exactly one pair
\* that matches is replaced by what handle gives for its value; any other
\* mapping and any sequence is rebuilt from its resolved members; a scalar
\* passes through.  An exception raised below ends the walk.
RECURSIVE resolve(_, _, _)
resolve(which, env, snippet) ==
    IF IsDict(snippet)
    THEN LET m == snippet.dict
             ks == DOMAIN m
         IN IF Cardinality(ks) = 1
               /\ \A k \in ks : match(which, env, k, m[k])
            THEN handle(which, env, m[CHOOSE k \in ks : TRUE])
            ELSE LET sub == [k \in ks |-> resolve(which, env, m[k])]
                     ys == {sub[k] : k \in ks}
                     calls == UNION {y.calls : y \in ys}
                 IN IF Raised(ys) # {}
                    THEN Yield(CHOOSE e \in Raised(ys) : TRUE, calls)
                    ELSE Yield(Dict([k \in ks |-> sub[k].val]), calls)
    ELSE IF IsList(snippet)
    THEN LET q == snippet.list
             sub == [i \in DOMAIN q |-> resolve(which, env, q[i])]
             bad == {i \in DOMAIN q : IsExc(sub[i].val)}
             first == CHOOSE i \in bad : \A j \in bad : i <= j
         IN IF bad # {}
            THEN Yield(sub[first].val,
                       UNION {sub[i].calls : i \in 1..first})
            ELSE Yield(List([i \in DOMAIN q |-> sub[i].val]),
                       UNION {sub[i].calls : i \in DOMAIN q})
    ELSE Yield(snippet, {})

\* HOTemplate.resolve_param_refs(s, parameters)
resolve_param_refs(s, parameters) == resolve("param", parameters, s)

\* HOTemplate.resolve_attributes(s, resources)
resolve_attributes(s, resources) == resolve("attr", resources, s)

----------------------------------------------------------------------------
(* hot.py: the sections of a template *)

VERSION == "heat_template_version"
DESCRIPTION == "description"
PARAMETERS == "parameters"
RESOURCES == "resources"
OUTPUTS == "outputs"
UNDEFINED == "__undefined__"
SECTIONS == {VERSION, DESCRIPTION, PARAMETERS, RESOURCES, OUTPUTS, UNDEFINED}

\* the section names of heat.engine.template, the CFN format
template_VERSION == "AWSTemplateFormatVersion"
template_DESCRIPTION == "Description"
template_PARAMETERS == "Parameters"
template_MAPPINGS == "Mappings"
template_RESOURCES == "Resources"
template_OUTPUTS == "Outputs"

CFN_TO_HOT_SECTIONS ==
    (template_VERSION :> VERSION)
    @@ (template_DESCRIPTION :> DESCRIPTION)
    @@ (template_PARAMETERS :> PARAMETERS)
    @@ (template_MAPPINGS :> UNDEFINED)
    @@ (template_RESOURCES :> RESOURCES)
    @@ (template_OUTPUTS :> OUTPUTS)

\* _translate(value, mapping, default)
translate(value, mapping, default) ==
    IF value \in DOMAIN mapping THEN mapping[value] ELSE default

\* _snake_to_camel(name) on the names of the model: split at '_', capitalize
\* every token, join
snake_to_camel(name) ==
    CASE name = "type" -> "Type"
      [] name = "default" -> "Default"
      [] name = "description" -> "Description"
      [] name = "hidden" -> "Hidden"
      [] name = "constraints" -> "Constraints"
      [] name = "range" -> "Range"
      [] name = "length" -> "Length"
      [] name = "allowed_values" -> "AllowedValues"
      [] name = "allowed_pattern" -> "AllowedPattern"
      [] name = "string" -> "String"
      [] name = "number" -> "Number"
      [] name = "" -> ""

\* what Python's `if v:` makes of a value
Truthy(v) ==
    IF v = PyNone THEN FALSE
    ELSE IF DOMAIN v = {"num"} THEN v.num # 0
    ELSE IF DOMAIN v = {"str"} THEN v.str # ""
    ELSE IF DOMAIN v = {"bool"} THEN v.bool
    ELSE IF DOMAIN v = {"dict"} THEN DOMAIN v.dict # {}
    ELSE IF DOMAIN v = {"list"} THEN v.list # <<>>
    ELSE TRUE

\* d.get(key): None when the mapping has no such key
get(d, key) == IF key \in DOMAIN d THEN d[key] ELSE PyNone

\* add_constraint(key, val, desc) of _translate_constraints, on the mapping
\* param from a key to the list of its (val, desc) pairs
add_constraint(param, key, val, desc) ==
    LET cons == IF key \in DOMAIN param THEN param[key] ELSE <<>>
    IN [k \in DOMAIN param \cup {key} |->
          IF k = key THEN Append(cons, Tuple(<<val, desc>>)) ELSE param[k]]

\* add_min_max(key, val, desc) of _translate_constraints
add_min_max(param, key, val, desc) ==
    LET minv == get(val.dict, "min")
        maxv == get(val.dict, "max")
        p1 == IF Truthy(minv)
              THEN add_constraint(param, "Min" \o key, minv, desc) ELSE param
    IN IF Truthy(maxv)
       THEN add_constraint(p1, "Max" \o key, maxv, desc) ELSE p1

\* the inner loop of _translate_constraints over the pairs of one constraint
\* that are still to come.  A dict is iterated in no specified order; in the
\* templates of the model one constraint derives no key twice, so that the
\* order makes no difference.
RECURSIVE ConstraintItems(_, _, _, _)
ConstraintItems(param, constraint, todo, desc) ==
    IF todo = {} THEN param
    ELSE LET k == CHOOSE x \in todo : TRUE
             val == constraint[k]
             key == snake_to_camel(k)
             p1 == IF key = "Description" THEN param
                   ELSE IF key = "Range"
                   THEN add_min_max(param, "Value", val, desc)
                   ELSE IF key = "Length"
                   THEN add_min_max(param, key, val, desc)
                   ELSE add_constraint(param, key, val, desc)
         IN ConstraintItems(p1, constraint, todo \ {k}, desc)

\* the outer loop of _translate_constraints from constraint i on
RECURSIVE ConstraintsLoop(_, _, _)
ConstraintsLoop(param, constraints, i) ==
    IF i > Len(constraints) THEN param
    ELSE LET constraint == constraints[i].dict
             desc == get(constraint, "description")
         IN ConstraintsLoop(
                ConstraintItems(param, constraint, DOMAIN constraint, desc),
                constraints, i + 1)

\* _translate_constraints(constraints): from a key to the list of its pairs
translate_constraints(constraints) ==
    LET param == ConstraintsLoop(<<>>, constraints.list, 1)
    IN [k \in DOMAIN param |-> List(param[k])]

\* param.update(other) and param[key] = val
update(param, other) == other @@ param

\* the inner loop of _translate_parameters over the attributes of one
\* parameter that are still to come (in no specified order; in the templates
\* of the model no two attributes of a parameter give the same key)
RECURSIVE ParameterItems(_, _, _)
ParameterItems(param, attrs, todo) ==
    IF todo = {} THEN param
    ELSE LET k == CHOOSE x \in todo : TRUE
             key == snake_to_camel(k)
             p1 == IF key = "Type"
                   THEN update(param,
                               key :> Str(snake_to_camel(attrs[k].str)))
                   ELSE IF key = "Constraints"
                   THEN update(param, translate_constraints(attrs[k]))
                   ELSE IF key = "Hidden"
                   THEN update(param, "NoEcho" :> attrs[k])
                   ELSE update(param, key :> attrs[k])
         IN ParameterItems(p1, attrs, todo \ {k})

\* _translate_parameters(parameters): a parameter left with no attribute is
\* left out
translate_parameters(parameters) ==
    LET param == [name \in DOMAIN parameters |->
                     ParameterItems(<<>>, parameters[name].dict,
                                    DOMAIN parameters[name].dict)]
        kept == {name \in DOMAIN parameters : DOMAIN param[name] # {}}
    IN [name \in kept |-> Dict(param[name])]

\* the renaming of the attributes of one resource or output: the attributes
\* of the model give different keys
Renamed(attrs, table) ==
    LET new == {translate(a, table, a) : a \in DOMAIN attrs}
    IN [n \in new |-> attrs[CHOOSE a \in DOMAIN attrs :
                                 translate(a, table, a) = n]]

\* _translate_resources(resources)
translate_resources(resources) ==
    LET HOT_TO_CFN_ATTRS == [type |-> "Type", properties |-> "Properties"]
    IN [resource_name \in DOMAIN resources |->
          Dict(Renamed(resources[resource_name].dict, HOT_TO_CFN_ATTRS))]

\* _translate_outputs(outputs)
translate_outputs(outputs) ==
    LET HOT_TO_CFN_ATTRS == [description |-> "Description", value |-> "Value"]
    IN [output_name \in DOMAIN outputs |->
          Dict(Renamed(outputs[output_name].dict, HOT_TO_CFN_ATTRS))]

\* HOTemplate.__getitem__(section) of the template whose mapping self.t is t;
\* self.t[section] raises KeyError when t has no such key
getitem(t, section) ==
    LET sec == translate(section, CFN_TO_HOT_SECTIONS, section) IN
    IF sec \notin SECTIONS
    THEN Exc("KeyError", <<Str(sec), Str("is not a valid template section")>>)
    ELSE IF sec = VERSION
    THEN (IF sec \in DOMAIN t THEN t[sec] ELSE Exc("KeyError", <<Str(sec)>>))
    ELSE IF sec = UNDEFINED THEN EmptyDict
    ELSE LET default == IF sec = DESCRIPTION THEN Str("No description")
                        ELSE EmptyDict
             the_section == IF sec \in DOMAIN t THEN t[sec] ELSE default
         IN IF sec = PARAMETERS
            THEN Dict(translate_parameters(the_section.dict))
            ELSE IF sec = RESOURCES
            THEN Dict(translate_resources(the_section.dict))
            ELSE IF sec = OUTPUTS
            THEN Dict(translate_outputs(the_section.dict))
            ELSE the_section

\* a template with every section, and with a mappings section as well
FullTemplate ==
    (VERSION :> Str("2013-05-23"))
    @@ (DESCRIPTION :> Str("a server"))
    @@ (PARAMETERS :>
          Dict([flavor |->
                  Dict([type |-> Str("string"),
                        default |-> Str("m1.small"),
                        hidden |-> Bool(TRUE),
                        constraints |->
                          List(<<Dict([range |-> Dict([min |-> Num(0),
                                                       max |-> Num(10)]),
                                       description |-> Str("up to 10")]),
                                 Dict([length |-> Dict([min |-> Num(1)])]),
                                 Dict([range |-> Dict([min |-> Num(2)])]),
                                 Dict([allowed_values |->
                                         List(<<Str("m1.small")>>)])>>)]),
                unused |-> Dict(<<>>)]))
    @@ (RESOURCES :>
          Dict([server |->
                  Dict([type |-> Str("OS::Nova::Server"),
                        properties |->
                          Dict([flavor |-> Dict([get_param |-> Str("flavor")])]),
                        depends_on |-> Str("volume")])]))
    @@ (OUTPUTS :>
          Dict([ip |->
                  Dict([description |-> Str("the address"),
                        value |-> Dict([get_attr |->
                                          List(<<Str("server"), Str("ip")>>)])])]))
    @@ ("Mappings" :> Dict([region |-> Str("east")]))

\* the templates of the model: FullTemplate without some of its sections
Templates ==
    {[k \in ks |-> FullTemplate[k]] : ks \in SUBSET (DOMAIN FullTemplate)}

\* the names a section is asked by: those of HOT, those of CFN, and two
\* that are neither
SectionNames ==
    SECTIONS \cup DOMAIN CFN_TO_HOT_SECTIONS \cup {"mappings", "Conditions"}

----------------------------------------------------------------------------
(* The snippets, parameters and resources of the model *)

\* the values {get_param: ...} and {get_attr: ...} are given
RefValues ==
    {Str("flavor"), Str("key_name"), Num(1),
     List(<<Str("server"), Str("ip")>>),
     List(<<Str("volume"), Str("size")>>),
     List(<<Str("server")>>)}

\* the smallest snippets: a scalar, a reference, and a mapping of two pairs
\* of which one looks like a reference
Leaves ==
    {Str("flavor"), Num(1)}
    \cup {Dict([get_param |-> v]) : v \in RefValues}
    \cup {Dict([get_attr |-> v]) : v \in RefValues}
    \cup {Dict([get_param |-> Str("flavor"), get_attr |-> Num(1)])}

\* snippets of depth one, two and three
Snippets ==
    Leaves
    \cup {List(<<a>>) : a \in Leaves}
    \cup {Dict([image |-> Str("fedora"), value |-> a]) : a \in Leaves}
    \cup {Dict([properties |-> List(<<Str("a"), Dict([value |-> a])>>)]) :
             a \in Leaves}
    \cup {List(<<a, Dict([get_param |-> Str("key_name")])>>) : a \in Leaves}
    \cup {List(<<a, Dict([get_attr |-> List(<<Str("volume"), Str("size")>>)])>>) :
             a \in Leaves}

\* the parameters supplied: neither, one or both of flavor and key_name
ParameterSets ==
    {<<>>,
     [flavor |-> Str("m1.small")],
     [flavor |-> Str("m1.small"), key_name |-> Num(7)]}

Resource(n, st) == [name |-> n, state |-> st]

\* the resources supplied: none, server in any state, or server and volume
ResourceSets ==
    {<<>>}
    \cup {[server |-> Resource("server", <<a, st>>)] :
             a \in ResourceActions, st \in ResourceStatuses}
    \cup {[server |-> Resource("server", <<a, COMPLETE>>),
           volume |-> Resource("volume", <<CREATE, st>>)] :
             a \in {CREATE, DELETE}, st \in ResourceStatuses}

----------------------------------------------------------------------------
(* The state machine *)

\* no call on a template
NoHot == [op |-> "none", s |-> PyNone, parameters |-> <<>>,
          resources |-> <<>>, t |-> <<>>, section |-> "",
          done |-> FALSE, ret |-> PyNone, calls |-> {}]

\* the calls on a template, with their arguments, before they are made
HotCalls ==
    {[NoHot EXCEPT !.op = "resolve_param_refs", !.s = s, !.parameters = p] :
        s \in Snippets, p \in ParameterSets}
    \cup {[NoHot EXCEPT !.op = "resolve_attributes", !.s = s, !.resources = r] :
             s \in Snippets, r \in ResourceSets}
    \cup {[NoHot EXCEPT !.op = "getitem", !.t = t, !.section = n] :
             t \in Templates, n \in SectionNames}

NoOut == [op |-> "init", target |-> None, payload |-> NoPayload,
          stk |-> Unread, ret |-> RetNone, log |-> <<>>, ran |-> FALSE,
          after |-> {}, was |-> None]

\* the two callers of the concurrent evaluation
Callers == {1, 2}

\* a caller that has not called yet: pc is the line it is to execute next,
\* new_state and actions are the local variables of run_rule, stk the stack
\* it loaded, ret what its call returned or raised; ran: it got into
\* run_rule, at time `at`; stored: its store() returned; raced: when it
\* passed the test of the elapsed time the other caller had passed it too
\* and had not assigned last_evaluated yet
NoCaller ==
    [pc |-> "idle", new_state |-> None, actions |-> <<>>, stk |-> Unread,
     ret |-> RetNone, ran |-> FALSE, stored |-> FALSE, at |-> {},
     raced |-> FALSE]

NoCallers == [t \in Callers |-> NoCaller]

\* the instance, as the methods see it
Self ==
    [rule |-> rule, state |-> state, last_evaluated |-> last_evaluated,
     now |-> now, id |-> id, watch_data |-> watch_data]

\* the instance after a method
Becomes(self) ==
    /\ rule' = self.rule
    /\ state' = self.state
    /\ last_evaluated' = self.last_evaluated
    /\ now' = self.now
    /\ id' = self.id
    /\ watch_data' = self.watch_data

\* WatchRule(context, name, rule, stack_id) with the defaults of __init__:
\* a rule that is not stored yet
InitNew(rules) ==
    /\ rule \in rules
    /\ state = NODATA
    /\ id = 0
    /\ watch_data = <<>>
    /\ clock = 0
    /\ last_evaluated = 0
    /\ now = 0
    /\ db_rule = <<>>
    /\ db_data = <<>>
    /\ out = NoOut
    /\ last_run = {}
    /\ last_done = {}
    /\ hot = NoHot
    /\ inflight = NoCallers

\* WatchRule.load(context, name) of a stored rule, last evaluated before now
InitLoaded(rules) ==
    /\ rule \in rules
    /\ state = NODATA
    /\ id = NewId
    /\ db_data \in InitialRows
    /\ watch_data = SamplesOf(db_data, NewId)
    /\ clock = 0
    /\ last_evaluated = -2
    /\ now = 0
    /\ db_rule = <<[id |-> NewId, state |-> NODATA, last_evaluated |-> -2]>>
    /\ out = NoOut
    /\ last_run = {}
    /\ last_done = {}
    /\ hot = NoHot
    /\ inflight = NoCallers

\* time passes
Tick ==
    /\ clock < MaxTime
    /\ clock' = clock + 1
    /\ out' = [NoOut EXCEPT !.op = "tick"]
    /\ UNCHANGED <<rule, state, last_evaluated, now, id, watch_data,
                   db_rule, db_data, last_run, last_done, hot, inflight>>

Evaluate(stk) ==
    \E r \in {evaluate(Self, db_rule, clock, stk)} :
    /\ Becomes(r.self)
    /\ db_rule' = r.rows
    /\ out' = [NoOut EXCEPT !.op = "evaluate", !.stk = r.stk, !.ret = r.ret,
                            !.log = r.log, !.ran = r.ran, !.after = last_done,
                            !.was = state]
    /\ last_run' = IF r.ran THEN {clock} ELSE last_run
    /\ last_done' = IF r.ran /\ r.ret.kind = "ok" THEN {clock} ELSE last_done
    /\ UNCHANGED <<clock, db_data, hot, inflight>>

RuleActions(new_state, stk) ==
    \E ra \in {rule_actions(rule, stk, new_state)} :
    /\ out' = [NoOut EXCEPT
                 !.op = "rule_actions",
                 !.target = new_state,
                 !.stk = IF ra.loaded THEN stk ELSE Unread,
                 !.ret = IF ra.exc # "" THEN Raise(ra.exc) ELSE Ok(ra.actions),
                 !.log = IF ra.loaded THEN <<"stack_load">> ELSE <<>>]
    /\ UNCHANGED <<rule, state, last_evaluated, now, id, watch_data, clock,
                   db_rule, db_data, last_run, last_done, hot, inflight>>

CreateWatchData(data) ==
    \E r \in {create_watch_data(Self, db_data, clock, data)} :
    /\ Len(r.drows) <= MaxRows
    /\ Becomes(r.self)
    /\ db_data' = r.drows
    /\ out' = [NoOut EXCEPT !.op = "create_watch_data", !.payload = data,
                            !.ret = r.ret, !.log = r.log]
    /\ UNCHANGED <<clock, db_rule, last_run, last_done, hot, inflight>>

StateSet(s) ==
    \E r \in {state_set(Self, db_rule, clock, s)} :
    /\ Becomes(r.self)
    /\ db_rule' = r.rows
    /\ out' = [NoOut EXCEPT !.op = "state_set", !.target = s, !.ret = r.ret,
                            !.log = r.log]
    /\ UNCHANGED <<clock, db_data, last_run, last_done, hot, inflight>>

SetWatchState(s, stk) ==
    \E r \in {set_watch_state(Self, stk, s)} :
    /\ Becomes(r.self)
    /\ out' = [NoOut EXCEPT !.op = "set_watch_state", !.target = s,
                            !.stk = r.stk, !.ret = r.ret, !.log = r.log]
    /\ UNCHANGED <<clock, db_rule, db_data, last_run, last_done, hot, inflight>>

Load ==
    \E r \in {load(Self, db_rule, db_data, clock)} :
    /\ Becomes(r.self)
    /\ out' = [NoOut EXCEPT !.op = "load", !.ret = r.ret, !.after = last_done]
    /\ last_run' = IF r.found THEN {} ELSE last_run
    /\ last_done' = IF r.found THEN {} ELSE last_done
    /\ UNCHANGED <<clock, db_rule, db_data, hot, inflight>>

ResolveParamRefs ==
    /\ hot.op = "resolve_param_refs"
    /\ ~hot.done
    /\ \E y \in {resolve_param_refs(hot.s, hot.parameters)} :
          hot' = [hot EXCEPT !.done = TRUE, !.ret = y.val, !.calls = y.calls]
    /\ UNCHANGED <<rule, state, last_evaluated, now, id, watch_data, clock,
                   db_rule, db_data, out, last_run, last_done, inflight>>

ResolveAttributes ==
    /\ hot.op = "resolve_attributes"
    /\ ~hot.done
    /\ \E y \in {resolve_attributes(hot.s, hot.resources)} :
          hot' = [hot EXCEPT !.done = TRUE, !.ret = y.val, !.calls = y.calls]
    /\ UNCHANGED <<rule, state, last_evaluated, now, id, watch_data, clock,
                   db_rule, db_data, out, last_run, last_done, inflight>>

GetItem ==
    /\ hot.op = "getitem"
    /\ ~hot.done
    /\ hot' = [hot EXCEPT !.done = TRUE, !.ret = getitem(hot.t, hot.section)]
    /\ UNCHANGED <<rule, state, last_evaluated, now, id, watch_data, clock,
                   db_rule, db_data, out, last_run, last_done, inflight>>

----------------------------------------------------------------------------
(* evaluate() and run_rule() a statement at a time, for two callers on the *)
(* same instance.  Each caller calls once.                                 *)

\* the test of the elapsed time as it would be if it took the period for
\* the caller: last_evaluated is assigned as soon as the test is passed
window_test_Takes(self) ==
    IF self.now < self.last_evaluated + timeperiod(self.rule)
    THEN [too_soon |-> TRUE, self |-> self]
    ELSE [too_soon |-> FALSE, self |-> [self EXCEPT !.last_evaluated = self.now]]

\* line 224: the test of the elapsed time; it assigns nothing
window_test(self) ==
    [too_soon |-> self.now < self.last_evaluated + timeperiod(self.rule),
     self |-> self]

\* caller u is in run_rule and has not assigned last_evaluated yet
BeforeWrite(u) == inflight[u].pc \in {"233", "234", "235", "237"}

Moves(t, c) == inflight' = [inflight EXCEPT ![t] = c]

\* line 220-221
EvalTestSuspended(t) ==
    /\ inflight[t].pc = "idle"
    /\ IF state = SUSPENDED
       THEN Moves(t, [inflight[t] EXCEPT !.pc = "done", !.ret = Ok(<<>>)])
       ELSE Moves(t, [inflight[t] EXCEPT !.pc = "223"])
    /\ UNCHANGED <<rule, state, last_evaluated, now, id, watch_data, clock,
                   db_rule, db_data, out, last_run, last_done, hot>>

\* line 223
EvalSampleNow(t) ==
    /\ inflight[t].pc = "223"
    /\ now' = clock
    /\ Moves(t, [inflight[t] EXCEPT !.pc = "224"])
    /\ UNCHANGED <<rule, state, last_evaluated, id, watch_data, clock,
                   db_rule, db_data, out, last_run, last_done, hot>>

\* line 224-226
EvalTestWindow(t) ==
    /\ inflight[t].pc = "224"
    /\ \E w \in {window_test(Self)} :
          /\ Becomes(w.self)
          /\ IF w.too_soon
             THEN Moves(t, [inflight[t] EXCEPT !.pc = "done", !.ret = Ok(<<>>)])
             ELSE Moves(t, [inflight[t] EXCEPT
                              !.pc = "233", !.ran = TRUE, !.at = {now},
                              !.raced = \E u \in Callers \ {t} : BeforeWrite(u)])
    /\ UNCHANGED <<clock, db_rule, db_data, out, last_run, last_done, hot>>

\* line 233
RunGetAlarmState(t) ==
    /\ inflight[t].pc = "233"
    /\ \E gas \in {get_alarm_state(rule, watch_data, now)} :
          IF gas.exc # ""
          THEN Moves(t, [inflight[t] EXCEPT !.pc = "done",
                                            !.ret = Raise(gas.exc)])
          ELSE Moves(t, [inflight[t] EXCEPT !.pc = "234",
                                            !.new_state = gas.state])
    /\ UNCHANGED <<rule, state, last_evaluated, now, id, watch_data, clock,
                   db_rule, db_data, out, last_run, last_done, hot>>

\* line 234
RunRuleActions(t, stk) ==
    /\ inflight[t].pc = "234"
    /\ \E ra \in {rule_actions(rule, stk, inflight[t].new_state)} :
          IF ra.exc # ""
          THEN Moves(t, [inflight[t] EXCEPT !.pc = "done", !.stk = stk,
                                            !.ret = Raise(ra.exc)])
          ELSE Moves(t, [inflight[t] EXCEPT
                           !.pc = "235", !.actions = ra.actions,
                           !.stk = IF ra.loaded THEN stk ELSE Unread])
    /\ UNCHANGED <<rule, state, last_evaluated, now, id, watch_data, clock,
                   db_rule, db_data, out, last_run, last_done, hot>>

\* line 235
RunSetState(t) ==
    /\ inflight[t].pc = "235"
    /\ state' = inflight[t].new_state
    /\ Moves(t, [inflight[t] EXCEPT !.pc = "237"])
    /\ UNCHANGED <<rule, last_evaluated, now, id, watch_data, clock,
                   db_rule, db_data, out, last_run, last_done, hot>>

\* line 237
RunSetLastEvaluated(t) ==
    /\ inflight[t].pc = "237"
    /\ last_evaluated' = now
    /\ Moves(t, [inflight[t] EXCEPT !.pc = "238"])
    /\ UNCHANGED <<rule, state, now, id, watch_data, clock,
                   db_rule, db_data, out, last_run, last_done, hot>>

\* line 238
RunStore(t) ==
    /\ inflight[t].pc = "238"
    /\ \E st \in {store(Self, db_rule, clock)} :
          /\ Becomes(st.self)
          /\ db_rule' = st.rows
    /\ Moves(t, [inflight[t] EXCEPT !.pc = "239", !.stored = TRUE])
    /\ UNCHANGED <<clock, db_data, out, last_run, last_done, hot>>

\* line 239
RunReturn(t) ==
    /\ inflight[t].pc = "239"
    /\ Moves(t, [inflight[t] EXCEPT !.pc = "done",
                                     !.ret = Ok(inflight[t].actions)])
    /\ UNCHANGED <<rule, state, last_evaluated, now, id, watch_data, clock,
                   db_rule, db_data, out, last_run, last_done, hot>>

----------------------------------------------------------------------------
(* Spec: the periodic evaluation of a rule, one call at a time *)

Init == InitNew(EvalRules) \/ InitLoaded(EvalRules)

Next ==
    \/ Tick
    \/ \E stk \in StackValues : Evaluate(stk)
    \/ \E s \in WATCH_STATES \cup {BogusState} : StateSet(s)
    \/ Load

Spec == Init /\ [][Next]_vars

\* SpecStackKept: the same, while the owning stack is never deleted
NextStackKept ==
    \/ Tick
    \/ \E stk \in StackValues \ {NoStack} : Evaluate(stk)
    \/ \E s \in WATCH_STATES \cup {BogusState} : StateSet(s)
    \/ Load

SpecStackKept == Init /\ [][NextStackKept]_vars

----------------------------------------------------------------------------
(* SpecCalls: the calls of the API on a rule: state override, action        *)
(* dispatch and ingestion                                                   *)

InitCalls == InitNew(CallRules)

NextCalls ==
    \/ \E s \in WATCH_STATES \cup {BogusState}, stk \in StackValues :
          RuleActions(s, stk)
    \/ \E s \in WATCH_STATES \cup {BogusState}, stk \in StackValues :
          SetWatchState(s, stk)
    \/ \E s \in WATCH_STATES \cup {BogusState} : StateSet(s)
    \/ \E data \in Payloads : CreateWatchData(data)

SpecCalls == InitCalls /\ [][NextCalls]_vars

----------------------------------------------------------------------------
(* SpecLife: the calls on one loaded instance that has one sample, as     *)
(* time passes: samples come in, the rule is evaluated, overridden and set *)

InitLife == InitLoaded(LifeRules) /\ Len(db_data) = 1

\* the stack is complete, or gone
LifeStacks == {NoStack, [action |-> "CREATE", status |-> COMPLETE]}

\* a sample of several metrics, with and without the metric of the rule
LifePayloads == {p \in Payloads : "Mem" \in DOMAIN p}

NextLife ==
    \/ Tick
    \/ \E stk \in LifeStacks : Evaluate(stk)
    \/ \E data \in LifePayloads : CreateWatchData(data)
    \/ \E s \in WATCH_STATES \cup {BogusState}, stk \in LifeStacks :
          SetWatchState(s, stk)
    \/ \E s \in WATCH_STATES \cup {BogusState} : StateSet(s)

SpecLife == InitLife /\ [][NextLife]_vars

----------------------------------------------------------------------------
(* SpecHot: one call on a HOT template, on any arguments; no rule is used *)

InitHot ==
    /\ rule \in {r \in LifeRules : r.Statistic = "Average"}
    /\ state = NODATA
    /\ id = 0
    /\ watch_data = <<>>
    /\ clock = 0
    /\ last_evaluated = 0
    /\ now = 0
    /\ db_rule = <<>>
    /\ db_data = <<>>
    /\ out = NoOut
    /\ last_run = {}
    /\ last_done = {}
    /\ hot \in HotCalls
    /\ inflight = NoCallers

NextHot ==
    \/ ResolveParamRefs
    \/ ResolveAttributes
    \/ GetItem

SpecHot == InitHot /\ [][NextHot]_vars

----------------------------------------------------------------------------
(* SpecRace: two callers evaluate a loaded rule at the same time *)

\* the rules of a period of two seconds
RaceRules == {r \in EvalRules : r.Period = 2}

InitRace == InitLoaded(RaceRules)

NextRace ==
    \/ Tick
    \/ \E t \in Callers : EvalTestSuspended(t)
    \/ \E t \in Callers : EvalSampleNow(t)
    \/ \E t \in Callers : EvalTestWindow(t)
    \/ \E t \in Callers : RunGetAlarmState(t)
    \/ \E t \in Callers, stk \in LifeStacks : RunRuleActions(t, stk)
    \/ \E t \in Callers : RunSetState(t)
    \/ \E t \in Callers : RunSetLastEvaluated(t)
    \/ \E t \in Callers : RunStore(t)
    \/ \E t \in Callers : RunReturn(t)

SpecRace == InitRace /\ [][NextRace]_vars

----------------------------------------------------------------------------
(* The claims about evaluate(), checked under Spec; C2 is checked under    *)
(* SpecStackKept, where no run fails for want of the stack                 *)

\* the step is a call of evaluate()
EvaluateCalled == out'.op = "evaluate"

\* the step is a call of evaluate() that went into run_rule
RuleRun == out'.op = "evaluate" /\ out'.ran

\* nothing of the rule changes and nothing is written
RuleUntouched ==
    /\ state' = state
    /\ last_evaluated' = last_evaluated
    /\ id' = id
    /\ db_rule' = db_rule

Events(log) == {log[i] : i \in DOMAIN log}

\* the actions the spec gives a state st of rule r whose stack is stk
ExpectedActions(r, st, stk) ==
    IF ACTION_MAP[st] \notin DOMAIN r THEN <<>>
    ELSE IF stk.action = DELETE \/ stk.status # COMPLETE THEN <<>>
    ELSE [i \in 1..Len(r[ACTION_MAP[st]]) |-> Signal(r[ACTION_MAP[st]][i])]

\* C1: evaluate() on a SUSPENDED rule returns [] and does nothing: state,
\* last_evaluated and self.now keep their values, no statistic runs, the
\* stack is not loaded and store() is not called.
C1_SuspendedEvaluateDoesNothing ==
    [][(state = SUSPENDED /\ EvaluateCalled) =>
         /\ out'.ret = Ok(<<>>)
         /\ out'.log = <<>>
         /\ ~out'.ran
         /\ now' = now
         /\ RuleUntouched]_vars

\* a SUSPENDED rule with samples, past its period, has been evaluated
C1_Witness ==
    /\ out.op = "evaluate"
    /\ state = SUSPENDED
    /\ watch_data # <<>>
    /\ clock >= last_evaluated + rule.Period

\* C2, first part: a call on a rule that is not SUSPENDED samples the clock;
\* before last_evaluated + timeperiod it returns [] and changes and stores
\* nothing, from then on it runs the rule.
C2_RateLimit ==
    [][(state # SUSPENDED /\ EvaluateCalled) =>
         /\ now' = clock
         /\ IF clock < last_evaluated + rule.Period
            THEN /\ ~out'.ran
                 /\ out'.ret = Ok(<<>>)
                 /\ out'.log = <<>>
                 /\ RuleUntouched
            ELSE out'.ran]_vars

\* C2 as claimed: the rate limit, and any run of the rule comes at least
\* timeperiod after the run before it on the same instance.
C2_AnyTwoRunsApart ==
    /\ C2_RateLimit
    /\ [][RuleRun => \A t \in last_run : clock >= t + rule.Period]_vars

\* C2 as amended: the rate limit, and any run of the rule comes at least
\* timeperiod after the last run that completed on the same instance.
C2_RunsApartFromCompleted ==
    /\ C2_RateLimit
    /\ [][RuleRun => \A t \in last_done : clock >= t + rule.Period]_vars

\* an instance that had completed a run has, a period later, completed
\* another
C2_Witness ==
    /\ out.op = "evaluate"
    /\ out.ran
    /\ out.ret.kind = "ok"
    /\ out.after # {}
    /\ \A t \in out.after : clock = t + rule.Period

\* C3: a run of the rule computes the state, then the actions of that state,
\* then assigns state and last_evaluated, then stores once, and returns the
\* actions; if the statistic or the actions fail, nothing is assigned or
\* stored.
C3_RunRuleOrder ==
    [][RuleRun =>
         IF out'.ret.kind = "ok"
         THEN /\ out'.log \in {<<"stat", "commit", "store">>,
                               <<"stat", "stack_load", "commit", "store">>}
              /\ state' = get_alarm_state(rule, watch_data, clock).state
              /\ out'.ret.value = ExpectedActions(rule, state', out'.stk)
              /\ last_evaluated' = clock
              /\ db_rule' # <<>>
              /\ db_rule'[1].state = state'
         ELSE /\ out'.ret.kind = "raise"
              /\ RuleUntouched
              /\ Events(out'.log) \cap {"commit", "store"} = {}]_vars

\* a run changed the state and returned the actions of the new state
C3_Witness ==
    /\ out.op = "evaluate"
    /\ out.ran
    /\ out.ret.kind = "ok"
    /\ out.ret.value # <<>>
    /\ state = ALARM
    /\ last_evaluated = clock
    /\ clock > 0

\* C4: a run of a rule whose Statistic is none of the five fails with an
\* UnknownStatistic error and changes and stores nothing.
C4_UnknownStatistic ==
    [][(RuleRun /\ rule.Statistic \notin Statistics) =>
         /\ out'.ret = Raise("UnknownStatistic")
         /\ RuleUntouched]_vars

\* no sample of the instance lies in the window that ends at time t
NoSampleInWindow(t) ==
    \A i \in DOMAIN watch_data : watch_data[i].created_at < t - rule.Period

\* what comparing 0 with the Threshold of the rule gives
ZeroAgainstThreshold ==
    LET op == rule.ComparisonOperator
        th == rule.Threshold
    IN IF \/ op = "GreaterThanThreshold" /\ 0 > th
          \/ op = "GreaterThanOrEqualToThreshold" /\ 0 >= th
          \/ op = "LessThanThreshold" /\ 0 < th
          \/ op = "LessThanOrEqualToThreshold" /\ 0 <= th
       THEN ALARM ELSE NORMAL

\* C5: with no sample in the window a completed run gives NODATA for Maximum,
\* Minimum and Average, and ALARM or NORMAL for Sum and SampleCount: 0 is
\* compared with the threshold (Sum, Threshold -1, GreaterThanThreshold
\* gives ALARM).
C5_EmptyWindow ==
    [][(RuleRun /\ out'.ret.kind = "ok" /\ NoSampleInWindow(clock)) =>
         /\ rule.Statistic \in {"Maximum", "Minimum", "Average"}
               => state' = NODATA
         /\ rule.Statistic \in {"Sum", "SampleCount"}
               => state' = ZeroAgainstThreshold
         /\ (/\ rule.Statistic = "Sum"
             /\ rule.Threshold = -1
             /\ rule.ComparisonOperator = "GreaterThanThreshold")
               => state' = ALARM]_vars

\* a Sum rule with samples, all of them out of the window, went to ALARM
C5_Witness ==
    /\ out.op = "evaluate"
    /\ out.ran
    /\ out.ret.kind = "ok"
    /\ rule.Statistic = "Sum"
    /\ watch_data # <<>>
    /\ NoSampleInWindow(last_evaluated)
    /\ state = ALARM

\* C8: when the stack is gone at the time rule_actions loads it, evaluate()
\* gets no actions, assigns the new state and last_evaluated, and stores.
C8_StackGone ==
    (out.op = "evaluate" /\ out.stk = NoStack) =>
        /\ out.ret = Ok(<<>>)
        /\ "store" \in Events(out.log)
        /\ last_evaluated = clock

----------------------------------------------------------------------------
(* The claims about the other calls, checked under SpecCalls *)

\* C6: rule_actions(new_state) for ALARM, NORMAL or NODATA returns [] without
\* loading the stack when the rule has no entry under the state's key;
\* otherwise [] when the stack is being deleted or is not complete; otherwise
\* one signal per configured action, in the configured order.
C6_RuleActions ==
    (out.op = "rule_actions" /\ out.target \in {ALARM, NORMAL, NODATA}) =>
        LET key == ACTION_MAP[out.target] IN
        IF key \notin DOMAIN rule
        THEN out.ret = Ok(<<>>) /\ out.log = <<>>
        ELSE /\ out.log = <<"stack_load">>
             /\ out.stk # NoStack =>
                  IF out.stk.action = DELETE \/ out.stk.status # COMPLETE
                  THEN out.ret = Ok(<<>>)
                  ELSE /\ out.ret.kind = "ok"
                       /\ Len(out.ret.value) = Len(rule[key])
                       /\ \A i \in 1..Len(rule[key]) :
                             out.ret.value[i] = Signal(rule[key][i])

\* rule_actions(ALARM) returned the two signals of a complete stack
C6_Witness ==
    /\ out.op = "rule_actions"
    /\ out.target = ALARM
    /\ out.stk.status = COMPLETE
    /\ Len(out.ret.value) = 2
    /\ out.ret.value[1] # out.ret.value[2]

\* C7: rule_actions(SUSPENDED), and set_watch_state(SUSPENDED), return [].
C7_SuspendedHasNoActions ==
    (out.op \in {"rule_actions", "set_watch_state"} /\ out.target = SUSPENDED)
        => out.ret = Ok(<<>>)

\* C9: create_watch_data inserts no row when the rule is SUSPENDED or the
\* sample lacks MetricName, and otherwise exactly one row, bound to the
\* rule's id; it leaves state, last_evaluated and self.watch_data alone.
C9_CreateWatchData ==
    [][out'.op = "create_watch_data" =>
         /\ state' = state
         /\ last_evaluated' = last_evaluated
         /\ watch_data' = watch_data
         /\ IF state = SUSPENDED \/ rule.MetricName \notin DOMAIN out'.payload
            THEN db_data' = db_data
            ELSE /\ Len(db_data') = Len(db_data) + 1
                 /\ SubSeq(db_data', 1, Len(db_data)) = db_data
                 /\ db_data'[Len(db_data')].watch_rule_id = id
                 /\ db_data'[Len(db_data')].data = out'.payload]_vars

\* a sample was stored for a rule that has an id
C9_Witness ==
    /\ out.op = "create_watch_data"
    /\ out.log = <<"watch_data_create">>
    /\ id # 0
    /\ db_data # <<>>
    /\ db_data[Len(db_data)].watch_rule_id = id

\* C10: set_watch_state(target) assigns and stores nothing; for the current
\* state it returns [] without loading the stack, for another watch state
\* what it returns is the action list of that state, and for anything else
\* it raises ValueError.
C10_SetWatchState ==
    [][out'.op = "set_watch_state" =>
         /\ RuleUntouched
         /\ "store" \notin Events(out'.log)
         /\ out'.target \notin WATCH_STATES => out'.ret = Raise("ValueError")
         /\ out'.target = state => out'.ret = Ok(<<>>) /\ out'.log = <<>>
         /\ (out'.target \in WATCH_STATES \ {state} /\ out'.ret.kind = "ok")
               => out'.ret.value = ExpectedActions(rule, out'.target, out'.stk)
       ]_vars

\* set_watch_state(ALARM) on a rule in another state returned its actions
C10_Witness ==
    /\ out.op = "set_watch_state"
    /\ out.target = ALARM
    /\ state # ALARM
    /\ out.ret.kind = "ok"
    /\ out.ret.value # <<>>

----------------------------------------------------------------------------
(* The claims about the stored rule, checked under Spec *)

\* C11: state_set(s) for a watch state assigns it and stores the rule, by a
\* create when the rule has no id and by an update otherwise, so that the
\* stored state is s; it returns no actions and leaves last_evaluated alone.
\* For any other s it raises the invalid-state error (ValueError), assigns
\* nothing and stores nothing.
C11_StateSet ==
    [][out'.op = "state_set" =>
         IF out'.target \in WATCH_STATES
         THEN /\ state' = out'.target
              /\ out'.log = <<"store">>
              /\ out'.ret = RetNone
              /\ last_evaluated' = last_evaluated
              /\ Len(db_rule') = 1
              /\ db_rule'[1].state = out'.target
              /\ db_rule'[1].id = id'
              /\ IF id = 0
                 THEN db_rule = <<>> /\ id' # 0
                 ELSE /\ id' = id
                      /\ db_rule'[1] = [db_rule[1] EXCEPT !.state = out'.target]
         ELSE /\ out'.ret = Raise("ValueError")
              /\ out'.log = <<>>
              /\ RuleUntouched]_vars

\* state_set(SUSPENDED) has updated the row of a rule that had run
C11_Witness ==
    /\ out.op = "state_set"
    /\ out.target = SUSPENDED
    /\ state = SUSPENDED
    /\ db_rule[1].state = SUSPENDED
    /\ last_done # {}
    /\ last_evaluated > db_rule[1].last_evaluated

----------------------------------------------------------------------------
(* The claim about the SUSPENDED state, checked under SpecLife *)

\* C12: no call of evaluate(), create_watch_data() or set_watch_state() takes
\* a rule out of SUSPENDED or into it, a completed run of the rule assigns
\* ALARM, NORMAL or NODATA, and a step that changes whether the rule is
\* SUSPENDED is a call of state_set.
C12_SuspendedOnlyByStateSet ==
    [][/\ out'.op \in {"evaluate", "create_watch_data", "set_watch_state"}
            => ((state' = SUSPENDED) <=> (state = SUSPENDED))
       /\ (RuleRun /\ out'.ret.kind = "ok")
            => state' \in {ALARM, NORMAL, NODATA}
       /\ ((state' = SUSPENDED) # (state = SUSPENDED))
            => out'.op = "state_set"]_vars

\* a rule that had run and was then suspended, with a sample added since it was loaded, is
\* still SUSPENDED after set_watch_state(ALARM) returned
C12_Witness ==
    /\ out.op = "set_watch_state"
    /\ out.target = ALARM
    /\ out.ret.kind = "ok"
    /\ state = SUSPENDED
    /\ last_done # {}
    /\ Len(db_data) > 1

----------------------------------------------------------------------------
(* The claims about the window, the stored time and repeated alarms,       *)
(* checked under Spec                                                      *)

\* the values of metric m in the samples of wd created at time t - p or later
WindowValues(wd, m, t, p) ==
    LET inw == SelectSeq(wd, LAMBDA d : d.created_at >= t - p)
    IN [i \in DOMAIN inw |-> inw[i].data[m].Value]

RECURSIVE Total(_)
Total(q) == IF q = <<>> THEN 0 ELSE Head(q) + Total(Tail(q))

\* what the Statistic of rule r is on the values q, as num / den, or none
StatisticOf(r, q) ==
    LET vals == {q[i] : i \in DOMAIN q}
        st == r.Statistic
    IN IF st = "SampleCount" THEN {[num |-> Len(q), den |-> 1]}
       ELSE IF st = "Sum" THEN {[num |-> Total(q), den |-> 1]}
       ELSE IF q = <<>> THEN {}
       ELSE IF st = "Average" THEN {[num |-> Total(q), den |-> Len(q)]}
       ELSE IF st = "Maximum"
       THEN {[num |-> CHOOSE v \in vals : \A w \in vals : w <= v, den |-> 1]}
       ELSE {[num |-> CHOOSE v \in vals : \A w \in vals : v <= w, den |-> 1]}

\* the state of rule r when its Statistic is x, or when there is none
StateOf(r, xs) ==
    LET op == r.ComparisonOperator
        th == r.Threshold
    IN IF xs = {} THEN NODATA
       ELSE LET x == CHOOSE y \in xs : TRUE
            IN IF \/ op = "GreaterThanThreshold" /\ x.num > th * x.den
                  \/ op = "GreaterThanOrEqualToThreshold" /\ x.num >= th * x.den
                  \/ op = "LessThanThreshold" /\ x.num < th * x.den
                  \/ op = "LessThanOrEqualToThreshold" /\ x.num <= th * x.den
               THEN ALARM ELSE NORMAL

\* C18: a run of the rule samples the clock, and the state it computes is
\* that of the Statistic over exactly the samples created at now - timeperiod
\* or later, now being that sampled time: the sample at the start of the
\* window counts, any earlier one does not.
C18_WindowFilter ==
    [][(RuleRun /\ out'.ret.kind = "ok") =>
         /\ now' = clock
         /\ state' = StateOf(rule, StatisticOf(rule,
                         WindowValues(watch_data, rule.MetricName, clock,
                                      rule.Period)))]_vars

\* a Maximum rule built at time 0 ran later, with a sample of 1 at the start
\* of its window and a sample of 3 before it, and is NORMAL at Threshold 2
C18_Witness ==
    /\ out.op = "evaluate"
    /\ out.ran
    /\ out.ret.kind = "ok"
    /\ rule.Statistic = "Maximum"
    /\ rule.Threshold = 2
    /\ last_evaluated > 0
    /\ \E i, j \in DOMAIN watch_data :
          /\ watch_data[i].created_at = last_evaluated - rule.Period
          /\ watch_data[i].data[rule.MetricName].Value = 1
          /\ watch_data[j].created_at < last_evaluated - rule.Period
          /\ watch_data[j].data[rule.MetricName].Value = 3
    /\ state = NORMAL

\* C19: a rule loaded after a completed run at time t has last_evaluated = t,
\* and an evaluate() on the loaded rule before t + timeperiod returns []
\* and does not run the rule.
C19_LastEvaluatedStored ==
    [][/\ (out'.op = "load" /\ out'.ret.kind # "raise" /\ last_done # {})
            => last_evaluated' \in last_done
       /\ (/\ out.op = "load"
           /\ EvaluateCalled
           /\ state # SUSPENDED
           /\ \E t \in out.after : clock < t + rule.Period)
            => (~out'.ran /\ out'.ret = Ok(<<>>))]_vars

\* the step is a completed run that computed the state the rule was in
SameStateRun == RuleRun /\ out'.ret.kind = "ok" /\ state' = state

\* C20 as claimed: a run that computes the state the rule is in already
\* returns no actions.
C20_ActionsOnlyOnTransition ==
    [][SameStateRun => out'.ret.value = <<>>]_vars

\* C20 as amended: a run that computes the state the rule is in already
\* returns the actions of that state as any run does: it loads the stack
\* when the rule has actions for the state, and while the rule stays in
\* ALARM, with AlarmActions and a complete stack that is not being deleted,
\* every run returns one signal per alarm action, in the configured order.
C20_ActionsOnEveryRun ==
    [][SameStateRun =>
         /\ ACTION_MAP[state] \in DOMAIN rule => out'.stk # Unread
         /\ out'.ret.value = ExpectedActions(rule, state, out'.stk)
         /\ (/\ state = ALARM
             /\ "AlarmActions" \in DOMAIN rule
             /\ out'.stk.action # DELETE
             /\ out'.stk.status = COMPLETE)
              => /\ Len(out'.ret.value) = Len(rule.AlarmActions)
                 /\ \A i \in DOMAIN rule.AlarmActions :
                       out'.ret.value[i] = Signal(rule.AlarmActions[i])]_vars

\* a rule that an earlier run left in ALARM ran again, computed ALARM again
\* and returned its alarm actions
C20_Witness ==
    /\ out.op = "evaluate"
    /\ out.ran
    /\ out.ret.kind = "ok"
    /\ out.after # {}
    /\ out.was = ALARM
    /\ state = ALARM
    /\ Len(out.ret.value) = 2

----------------------------------------------------------------------------
(* The claim about two evaluations at a time, checked under SpecRace *)

\* caller t passes or fails the test of the elapsed time in this step
TestsWindow(t) == inflight[t].pc = "224" /\ inflight'[t].pc # "224"

\* C17: evaluate() does not synchronize its callers.  A caller that tests the
\* elapsed time while the other is in run_rule and has not assigned
\* last_evaluated yet passes the test and runs the rule too; every caller
\* whose run completes has called store() and returns the actions of the
\* state it computed, so two such callers make two runs and two store()
\* calls, however little time lies between them.
C17_NotSelfSynchronizing ==
    [][\A t \in Callers :
         /\ (TestsWindow(t) /\ \E u \in Callers \ {t} : BeforeWrite(u))
              => (inflight'[t].pc = "233" /\ inflight'[t].ran)
         /\ (inflight'[t].pc = "done" /\ inflight'[t].ran
                                      /\ inflight'[t].ret.kind = "ok")
              => /\ inflight'[t].stored
                 /\ inflight'[t].ret.value =
                       ExpectedActions(rule, inflight'[t].new_state,
                                       inflight'[t].stk)]_vars

\* both callers ran the rule at the same second of a period of two, one of
\* them while the other was in run_rule; both stored and both returned the
\* alarm actions
C17_Witness ==
    /\ \A t \in Callers :
          /\ inflight[t].pc = "done"
          /\ inflight[t].ran
          /\ inflight[t].stored
          /\ inflight[t].ret.kind = "ok"
          /\ Len(inflight[t].ret.value) = 2
    /\ \E t \in Callers : inflight[t].raced
    /\ inflight[1].at = inflight[2].at
    /\ rule.Period = 2

----------------------------------------------------------------------------
(* The claims about the resolution of references, checked under SpecHot *)

\* the snippet is a mapping of the one pair get_param: <a string>
IsParamRef(s) ==
    /\ IsDict(s)
    /\ DOMAIN s.dict = {"get_param"}
    /\ IsStr(s.dict["get_param"])

\* the snippet is a mapping of the one pair get_attr: [<a string>, <any>]
IsAttrRef(s) ==
    /\ IsDict(s)
    /\ DOMAIN s.dict = {"get_attr"}
    /\ IsList(s.dict["get_attr"])
    /\ Len(s.dict["get_attr"].list) = 2
    /\ IsStr(s.dict["get_attr"].list[1])

\* the names the get_param references of a snippet name, at any depth
RECURSIVE ParamRefs(_)
ParamRefs(s) ==
    IF IsParamRef(s) THEN {s.dict["get_param"].str}
    ELSE IF IsDict(s) THEN UNION {ParamRefs(s.dict[k]) : k \in DOMAIN s.dict}
    ELSE IF IsList(s) THEN UNION {ParamRefs(s.list[i]) : i \in DOMAIN s.list}
    ELSE {}

\* the (resource, attribute) pairs the get_attr references of a snippet
\* name, at any depth
RECURSIVE AttrRefs(_)
AttrRefs(s) ==
    IF IsAttrRef(s)
    THEN {<<s.dict["get_attr"].list[1].str, s.dict["get_attr"].list[2]>>}
    ELSE IF IsDict(s) THEN UNION {AttrRefs(s.dict[k]) : k \in DOMAIN s.dict}
    ELSE IF IsList(s) THEN UNION {AttrRefs(s.list[i]) : i \in DOMAIN s.list}
    ELSE {}

\* C13: resolve_param_refs raises the missing-parameter error, naming the
\* parameter, when the snippet holds at any depth a reference to a parameter
\* that was not supplied; when all are supplied, a reference is replaced by
\* the value of its parameter and none is left.
C13_MissingParameter ==
    (hot.op = "resolve_param_refs" /\ hot.done) =>
        LET absent == ParamRefs(hot.s) \ DOMAIN hot.parameters IN
        IF absent # {}
        THEN /\ IsExc(hot.ret)
             /\ hot.ret.raise = "UserParameterMissing"
             /\ \E n \in absent : hot.ret.args = <<Str(n)>>
        ELSE /\ ~IsExc(hot.ret)
             /\ ParamRefs(hot.ret) = {}
             /\ IsParamRef(hot.s)
                   => hot.ret = hot.parameters[hot.s.dict["get_param"].str]

\* C14: resolve_attributes raises InvalidTemplateAttribute, naming the
\* resource and the attribute, when the snippet holds a get_attr reference to
\* a resource that is not in the collection.
C14_AbsentResource ==
    (hot.op = "resolve_attributes" /\ hot.done) =>
        LET absent == {ref \in AttrRefs(hot.s) :
                          ref[1] \notin DOMAIN hot.resources}
        IN absent # {} =>
             /\ IsExc(hot.ret)
             /\ hot.ret.raise = "InvalidTemplateAttribute"
             /\ \E ref \in absent : hot.ret.args = <<Str(ref[1]), ref[2]>>

\* the references of snippet s with what stands in their place in r, the
\* snippet resolve_attributes made of s
RECURSIVE Resolved(_, _)
Resolved(s, r) ==
    IF IsAttrRef(s)
    THEN {[resource |-> s.dict["get_attr"].list[1].str,
           att |-> s.dict["get_attr"].list[2],
           val |-> r]}
    ELSE IF IsDict(s)
    THEN UNION {Resolved(s.dict[k], r.dict[k]) : k \in DOMAIN s.dict}
    ELSE IF IsList(s)
    THEN UNION {Resolved(s.list[i], r.list[i]) : i \in DOMAIN s.list}
    ELSE {}

\* the attribute is read in this state of a resource
ReadIn(st) ==
    \/ st = <<"CREATE", "IN_PROGRESS">>
    \/ st = <<"CREATE", "COMPLETE">>
    \/ st = <<"UPDATE", "IN_PROGRESS">>
    \/ st = <<"UPDATE", "COMPLETE">>

\* C15: in a snippet whose get_attr references all name resources of the
\* collection, resolve_attributes raises nothing; it calls FnGetAtt for
\* exactly the references to a resource in CREATE or UPDATE, IN_PROGRESS or
\* COMPLETE, and puts the value in the place of the reference; a reference
\* to a resource in any other state becomes None.
C15_AttributeReadByPhase ==
    (/\ hot.op = "resolve_attributes"
     /\ hot.done
     /\ \A ref \in AttrRefs(hot.s) : ref[1] \in DOMAIN hot.resources) =>
        /\ ~IsExc(hot.ret)
        /\ hot.calls = {ref \in AttrRefs(hot.s) :
                           ReadIn(hot.resources[ref[1]].state)}
        /\ \A x \in Resolved(hot.s, hot.ret) :
              IF ReadIn(hot.resources[x.resource].state)
              THEN x.val = [attribute |-> <<x.resource, x.att>>]
              ELSE x.val = PyNone

\* of two references in one snippet, the one to a complete server was
\* read and the one to a failed volume became None
C15_Witness ==
    /\ hot.op = "resolve_attributes"
    /\ hot.done
    /\ hot.calls = {<<"server", Str("ip")>>}
    /\ IsList(hot.ret)
    /\ Len(hot.ret.list) = 2
    /\ hot.ret.list[1] = [attribute |-> <<"server", Str("ip")>>]
    /\ hot.ret.list[2] = PyNone
    /\ hot.resources["volume"].state = <<"CREATE", "FAILED">>

----------------------------------------------------------------------------
(* The claim about the section lookup, checked under SpecHot *)

\* the section a recognized name stands for
SectionOf(n) ==
    IF n \in DOMAIN CFN_TO_HOT_SECTIONS THEN CFN_TO_HOT_SECTIONS[n] ELSE n

\* C16: for a template with or without the section, the lookup of a section
\* by its name or its legacy name returns a value and raises nothing: the
\* mappings section is always {}, an absent description is 'No description',
\* any other absent section is {}; only a name that is no section's raises,
\* and then the invalid-section error.
C16_SectionLookupTotal ==
    (hot.op = "getitem" /\ hot.done) =>
        LET sec == SectionOf(hot.section) IN
        IF sec \in {VERSION, DESCRIPTION, PARAMETERS, RESOURCES, OUTPUTS}
        THEN /\ ~IsExc(hot.ret)
             /\ sec \notin DOMAIN hot.t =>
                   hot.ret = IF sec = DESCRIPTION THEN Str("No description")
                             ELSE EmptyDict
        ELSE IF hot.section = "Mappings"
        THEN hot.ret = EmptyDict
        ELSE IF hot.section \notin SECTIONS
        THEN /\ IsExc(hot.ret)
             /\ hot.ret.args[2] = Str("is not a valid template section")
        ELSE TRUE

====
